---- MODULE Spec2Model ----
(***************************************************************************)
(* Model of the segment grouping / summarization engine                    *)
(* (src/src/grouping/group_segments.py) and of the segment classifier      *)
(* (src/src/classification/segment_classifier.py).                         *)
(*                                                                         *)
(* Text is modelled as a sequence of one-character strings, so that        *)
(* strip(), upper(), lower(), slicing and the `in` substring test are      *)
(* computed as Python computes them.                                       *)
(***************************************************************************)
EXTENDS Integers, Sequences, FiniteSets, TLC

\* ------------------------------------------------------------------ bounds

\* Longest input sequence of a grouping run.
MaxSegs == 5
\* Largest max_segments_per_group tried (the code's default is 15).
MaxLimit == 3
\* Seconds covered by one transcript segment.
SegDur == 5
\* Number of characters of the long segment text (before its index digit).
LongLen == 90

\* Longest input sequence of a classification run.
MaxClsSegs == 3

\* Longest unvalidated input sequence of a grouping run.
MaxFlawedSegs == 3

\* The lowest max_segments_per_group of a run is -LowLimitDepth.
LowLimitDepth == 1

\* Longest input sequence of a filter run.
MaxFilterSegs == 3

\* Most segments a transcription hands to the pipeline.
MaxPipeSegs == 3

\* Largest batch of a batch classification.
MaxBatchSegs == 2

\* -------------------------------------------------------- program constants

\* summarize_group: combined_text[:100]
FallbackCut == 100
\* classify_segments: len(text.split()) < 3
MinWords == 3
\* summarize_group: "Keep your summary under 300 words."
WordLimit == 300

\* ------------------------------------------------------------ Python strings

Min(a, b) == IF a < b THEN a ELSE b

\* str.isspace() for the characters of the model's alphabet
IsSpace(c) == c \in {" ", "\n", "\t"}

LowerCaseLetters == <<"a","b","c","d","e","f","g","h","i","j","k","l","m",
                      "n","o","p","q","r","s","t","u","v","w","x","y","z">>
UpperCaseLetters == <<"A","B","C","D","E","F","G","H","I","J","K","L","M",
                      "N","O","P","Q","R","S","T","U","V","W","X","Y","Z">>

UpperChar(c) ==
    IF \E k \in 1..26 : LowerCaseLetters[k] = c
    THEN UpperCaseLetters[CHOOSE k \in 1..26 : LowerCaseLetters[k] = c]
    ELSE c

LowerChar(c) ==
    IF \E k \in 1..26 : UpperCaseLetters[k] = c
    THEN LowerCaseLetters[CHOOSE k \in 1..26 : UpperCaseLetters[k] = c]
    ELSE c

\* str.upper(), str.lower()
Upper(s) == [k \in 1..Len(s) |-> UpperChar(s[k])]
Lower(s) == [k \in 1..Len(s) |-> LowerChar(s[k])]

\* str.strip(): drop leading and trailing whitespace
Strip(s) ==
    IF \A k \in 1..Len(s) : IsSpace(s[k]) THEN <<>>
    ELSE LET lo == CHOOSE k \in 1..Len(s) :
                      ~IsSpace(s[k]) /\ \A m \in 1..(k - 1) : IsSpace(s[m])
             hi == CHOOSE k \in 1..Len(s) :
                      ~IsSpace(s[k]) /\ \A m \in (k + 1)..Len(s) : IsSpace(s[m])
         IN  SubSeq(s, lo, hi)

\* sub in s
Contains(sub, s) ==
    \E k \in 0..(Len(s) - Len(sub)) : SubSeq(s, k + 1, k + Len(sub)) = sub

\* len(s.split()): the number of maximal runs of non-whitespace characters
WordCount(s) ==
    Cardinality({k \in 1..Len(s) : ~IsSpace(s[k]) /\ (k = 1 \/ IsSpace(s[k - 1]))})

IsQuote(c) == c \in {"\"", "'"}
NotQuote(c) == ~IsQuote(c)

\* s.replace('"', '').replace("'", '')
RemoveQuotes(s) == SelectSeq(s, NotQuote)

\* dict.get(key, default)
Get(d, key, default) == IF key \in DOMAIN d THEN d[key] ELSE default

\* s[:n]
Take(s, n) == SubSeq(s, 1, Min(n, Len(s)))

\* '\n'.join(parts)
RECURSIVE JoinLines(_)
JoinLines(parts) ==
    IF Len(parts) = 0 THEN <<>>
    ELSE IF Len(parts) = 1 THEN parts[1]
    ELSE parts[1] \o <<"\n">> \o JoinLines(Tail(parts))

\* --------------------------------------------------------------- timestamps

DigitChars == <<"0","1","2","3","4","5","6","7","8","9">>

\* str(n) for n >= 0
RECURSIVE Decimal(_)
Decimal(n) ==
    IF n < 10 THEN <<DigitChars[n + 1]>>
    ELSE Decimal(n \div 10) \o <<DigitChars[(n % 10) + 1]>>

\* f"{n:02d}"
TwoDigits(n) == IF n < 10 THEN <<"0">> \o Decimal(n) ELSE Decimal(n)

seconds_to_timestamp(seconds) ==
    LET hours   == seconds \div 3600
        minutes == (seconds % 3600) \div 60
        secs    == seconds % 60
    IN  Decimal(hours) \o <<":">> \o TwoDigits(minutes) \o <<":">> \o TwoDigits(secs)

\* ------------------------------------------------------ classification labels

L_introduction == <<"i","n","t","r","o","d","u","c","t","i","o","n">>
L_explanation == <<"e","x","p","l","a","n","a","t","i","o","n">>
L_demonstration == <<"d","e","m","o","n","s","t","r","a","t","i","o","n">>
L_code_example == <<"c","o","d","e","_","e","x","a","m","p","l","e">>
L_tip == <<"t","i","p">>
L_warning == <<"w","a","r","n","i","n","g">>
L_summary == <<"s","u","m","m","a","r","y">>
L_transition == <<"t","r","a","n","s","i","t","i","o","n">>
L_greeting == <<"g","r","e","e","t","i","n","g">>
L_farewell == <<"f","a","r","e","w","e","l","l">>
L_filler == <<"f","i","l","l","e","r">>
L_noise == <<"n","o","i","s","e">>
L_off_topic == <<"o","f","f","_","t","o","p","i","c">>

CLASSIFICATION_LABELS ==
    <<L_introduction, L_explanation, L_demonstration, L_code_example, L_tip,
      L_warning, L_summary, L_transition, L_greeting, L_farewell,
      L_filler, L_noise, L_off_topic>>

\* ----------------------------------------------------------------- segments

ShortText(k) == <<"t","o","p","i","c"," ">> \o Decimal(k)
LongText(k)  == [m \in 1..LongLen |-> "a"] \o <<" ">> \o Decimal(k)

\* The k-th segment of a transcript, as the transcriber and the classifier
\* build it; its text is long when k = long_at.
Segment(k, long_at) ==
    [start |-> seconds_to_timestamp(SegDur * (k - 1)),
     end   |-> seconds_to_timestamp(SegDur * k),
     text  |-> IF k = long_at THEN LongText(k) ELSE ShortText(k),
     label |-> IF k = long_at THEN L_demonstration ELSE L_explanation]

\* The filtered inputs of a grouping run: n segments, the first one long or none.
GroupingInputs ==
    {[k \in 1..n |-> Segment(k, la)] : n \in 0..MaxSegs, la \in 0..1}

\* ------------------------------------------------------------------- oracle

\* One oracle round trip ends in one of:
\*   "ok"        status 200, JSON body with a string 'response' (text)
\*   "status"    a response whose status is not 200
\*   "transport" requests.post raised (connection error, timeout)
\*   "malformed" status 200 but the body is not JSON, has no 'response'
\*               key, or 'response' is not a string
Ok(text)   == [kind |-> "ok", text |-> text]
Failure(k) == [kind |-> k, text |-> <<>>]
NoCall     == [kind |-> "none", text |-> <<>>]

FailureKinds == {"status", "transport", "malformed"}
OracleFailures == {Failure(k) : k \in FailureKinds}

IsFailure(o) == o.kind \in FailureKinds

\* Replies to the boundary prompt
BoundaryReplies ==
    { <<"Y","E","S">>,
      <<" ","y","e","s","\n">>,
      <<"N","O">>,
      <<"n","o",",", " ", "e","y","e","s">>,
      <<"m","a","y","b","e">>,
      <<>> }
BoundaryOutcomes == {Ok(t) : t \in BoundaryReplies} \cup OracleFailures

\* A reply of WordLimit + 1 one-letter words (fewer than num_predict = 500 tokens).
WordyReply == [k \in 1..(2 * WordLimit + 1) |-> IF k % 2 = 1 THEN "w" ELSE " "]

\* Replies to the summarization prompt
SummaryReplies ==
    { <<" ","R","e","c","a","p","."," ","\n">>,
      <<" ","\n"," ">>,
      <<>>,
      WordyReply }
SummaryOutcomes == {Ok(t) : t \in SummaryReplies} \cup OracleFailures

\* --------------------------------------------------------------------- state

VARIABLES
    segments,                 \* the input list
    max_segments_per_group,   \* the safety limit
    pc,                       \* "start" | "loop" | "done" | "check_raised" | "summarize_raised"
    i,                        \* loop index (0-based, as in the code)
    current_group,            \* the open group
    grouped_data,             \* the emitted groups
    group_id,                 \* next id
    boundary_requests,        \* boundary prompts sent so far
    summary_requests,         \* summarization prompts sent so far
    last_check,               \* outcome and decision of the latest boundary check
    emit_log,                 \* per emitted group: path, oracle outcome of its summary
    oracle_ok_seen,           \* some oracle call of the run got a successful reply
    \* classify_segments
    c_segments,               \* the input list (transcript segments)
    c_pc,                     \* "idle" | "loop" | "done" | "raised"
    classified_segments,      \* the output list
    c_log,                    \* per classified segment: the oracle outcome, if one was asked for
    \* filter_segments
    f_segments,               \* the input list (classified segments)
    f_logger,                 \* a logger was passed
    f_pc,                     \* "idle" | "loop" | "done" | "raised"
    f_i,                      \* number of input segments consumed
    filtered,                 \* the output list
    seen_texts,               \* normalized texts of the segments kept so far
    stats,                    \* the per-run counters
    f_pass,                   \* 1: a run on classified segments; 2: a run on the output of run 1
    f_first,                  \* the output of run 1, once run 2 has started
    \* main / pipeline_part1 + pipeline_part2
    p_entry,                  \* "main_cli" | "by_part"
    p_pc,                     \* the stage to run next, or "complete" | "exit1" | "crashed" | "idle"
    p_started,                \* the stages started so far, in order
    grouped_json,             \* "absent" | "partial" | "written"
    p_save_failed,            \* save_json raised
    p_counts,                 \* numbers of transcript segments, filtered segments, groups
    \* classify_batch_with_ollama
    b_segments,               \* the batch
    b_pc,                     \* "idle" | "request" | "fallback" | "done" | "raised"
    b_labels,                 \* the labels returned, or collected so far by the fallback
    b_reply,                  \* the outcome of the batch request
    b_log                     \* the outcomes of the fallback's requests

gvars == <<segments, max_segments_per_group, pc, i, current_group, grouped_data,
           group_id, boundary_requests, summary_requests, last_check, emit_log,
           oracle_ok_seen>>

cvars == <<c_segments, c_pc, classified_segments, c_log>>

fvars == <<f_segments, f_logger, f_pc, f_i, filtered, seen_texts, stats, f_pass, f_first>>

pvars == <<p_entry, p_pc, p_started, grouped_json, p_save_failed, p_counts>>

bvars == <<b_segments, b_pc, b_labels, b_reply, b_log>>

vars == <<gvars, cvars, fvars, pvars, bvars>>

\* What a grouping run leaves alone / what a classification run leaves alone.
OutsideGrouping == <<cvars, fvars, pvars, bvars>>
OutsideClassifier == <<gvars, fvars, pvars, bvars>>
OutsideFilter == <<gvars, cvars, pvars, bvars>>
OutsidePipeline == <<gvars, cvars, fvars, bvars>>
OutsideBatch == <<gvars, cvars, fvars, pvars>>

\* The counters of a filter run over `total` segments, before its loop.
NewStats(total) ==
    [total |-> total, irrelevant_label |-> 0, duplicate |-> 0, empty |-> 0, kept |-> 0]

\* No filter run / no pipeline run is in progress.
FilterIdle ==
    /\ f_segments = <<>>
    /\ f_logger = FALSE
    /\ f_pc = "idle"
    /\ f_i = 0
    /\ filtered = <<>>
    /\ seen_texts = {}
    /\ stats = NewStats(0)
    /\ f_pass = 1
    /\ f_first = <<>>

\* No batch classification is in progress.
BatchIdle ==
    /\ b_segments = <<>>
    /\ b_pc = "idle"
    /\ b_labels = <<>>
    /\ b_reply = NoCall
    /\ b_log = <<>>

PipelineIdle ==
    /\ p_entry = "main_cli"
    /\ p_pc = "idle"
    /\ p_started = <<>>
    /\ grouped_json = "absent"
    /\ p_save_failed = FALSE
    /\ p_counts = [segments |-> 0, filtered |-> 0, groups |-> 0]

\* ------------------------------------------------- results of a Python call

\* A call either returns a value or raises.
Value(v) == [raised |-> FALSE, value |-> v, warned |-> FALSE]
Raise    == [raised |-> TRUE, value |-> <<>>, warned |-> FALSE]
\* A value returned after print("Warning: ...")
Warned(v) == [raised |-> FALSE, value |-> v, warned |-> TRUE]

\* --------------------------------------------- check_segment_belongs_to_group

YES == <<"Y","E","S">>

\* '\n'.join([f"- {seg['text']}" for seg in group_segments])
group_texts(group_segments) ==
    JoinLines([k \in 1..Len(group_segments) |-> <<"-"," ">> \o group_segments[k].text])

\* seg['text'] does not raise KeyError
HasText(seg) == "text" \in DOMAIN seg

\* The prompt is built before the try block: a segment without text raises.
PromptBuilt(group_segments, next_segment) ==
    /\ \A k \in 1..Len(group_segments) : HasText(group_segments[k])
    /\ HasText(next_segment)

\* the mutant of BelongsTry: answer == 'YES' instead of 'YES' in answer
BelongsTryExact(o) ==
    IF o.kind = "transport" THEN Raise
    ELSE IF o.kind = "status" THEN Value(TRUE)
    ELSE IF o.kind = "malformed" THEN Raise
    ELSE Value(Upper(Strip(o.text)) = <<"Y","E","S">>)

\* The body of the try block, before the handler.
BelongsTry(o) ==
    IF o.kind = "transport" THEN Raise                 \* requests.post raises
    ELSE IF o.kind = "status" THEN Value(TRUE)         \* status_code != 200
    ELSE IF o.kind = "malformed" THEN Raise            \* json() / ['response'] / .strip() raises
    ELSE Value(Contains(YES, Upper(Strip(o.text))))    \* 'YES' in answer

\* the mutant of check_segment_belongs_to_group: the handler returns False
BelongsDefaultNo(o) ==
    LET r == BelongsTry(o)
    IN  IF r.raised THEN Warned(FALSE) ELSE r

\* except Exception: return True
check_segment_belongs_to_group(o) ==
    LET r == BelongsTry(o)
    IN  IF r.raised THEN Warned(TRUE) ELSE r

\* ------------------------------------------------------------ summarize_group

SummaryFailed == <<"S","u","m","m","a","r","y"," ","g","e","n","e","r","a","t","i","o","n"," ","f","a","i","l","e","d",".">>
SectionCovering == <<"S","e","c","t","i","o","n"," ","c","o","v","e","r","i","n","g",":"," ">>
Ellipsis == <<".",".",".">>

\* f"[{seg['start']} - {seg['end']}] {seg['text']}"
RenderSegment(seg) ==
    <<"[">> \o seg.start \o <<" ","-"," ">> \o seg.end \o <<"]"," ">> \o seg.text

combined_text(segs) == JoinLines([k \in 1..Len(segs) |-> RenderSegment(segs[k])])

\* The body of the try block, before the handler.
SummaryTry(o) ==
    IF o.kind = "transport" THEN Raise                 \* requests.post raises
    ELSE IF o.kind = "status" THEN Value(SummaryFailed) \* status_code != 200
    ELSE IF o.kind = "malformed" THEN Raise            \* json() / ['response'] / .strip() raises
    ELSE Value(Strip(o.text))                          \* result['response'].strip()

\* the mutant of SummaryRequested: no shortcut for a single segment
SummaryAlwaysRequested(segs) == TRUE

\* The oracle is asked only for a group that does not hold exactly one segment.
SummaryRequested(segs) == Len(segs) # 1

\* the mutant of summarize_group: no handler, the exception propagates
SummarizeUncaught(segs, o) ==
    IF ~SummaryRequested(segs) THEN Value(segs[1].text) ELSE SummaryTry(o)

\* o is the outcome of the oracle round trip, should one be made. The single
\* segment's text and combined_text are read before the try block.
summarize_group(segs, o) ==
    IF ~SummaryRequested(segs)
    THEN (IF HasText(segs[1]) THEN Value(segs[1].text) ELSE Raise)
    ELSE IF \E k \in 1..Len(segs) : ~HasText(segs[k]) THEN Raise
    ELSE LET r == SummaryTry(o)
         IN  IF r.raised
             THEN Warned(SectionCovering \o Take(combined_text(segs), FallbackCut) \o Ellipsis)
             ELSE r

\* ----------------------------------------------------- group_segments_with_llm

\* The record appended when the safety limit closes the open group.
GroupRecordLimit(gid, group, summary) ==
    [group_id         |-> gid,
     group_start_time |-> group[1].start,
     group_end_time   |-> group[Len(group)].end,
     group_summary    |-> summary,
     group_segments   |-> group]

\* The record appended when the oracle answers that the next segment starts a new topic.
GroupRecordBoundary(gid, group, summary) ==
    [group_id         |-> gid,
     group_start_time |-> group[1].start,
     group_end_time   |-> group[Len(group)].end,
     group_summary    |-> summary,
     group_segments   |-> group]

\* the mutant of GroupRecordFlush: the end time is taken from the first segment
GroupRecordFlushFirstEnd(gid, group, summary) ==
    [group_id         |-> gid,
     group_start_time |-> group[1].start,
     group_end_time   |-> group[1].end,
     group_summary    |-> summary,
     group_segments   |-> group]

\* The record appended for the last group, after the loop.
GroupRecordFlush(gid, group, summary) ==
    [group_id         |-> gid,
     group_start_time |-> group[1].start,
     group_end_time   |-> group[Len(group)].end,
     group_summary    |-> summary,
     group_segments   |-> group]

\* the mutant of Emit: the new record goes to the front of the list
EmitInFront(grouped, record) == <<record>> \o grouped

\* grouped_data.append({...})
Emit(grouped, record) == Append(grouped, record)

\* the mutants of LimitReached: a limit below 1 counts as no limit / the limit
\* is never tested
LimitReachedPositiveOnly(group, limit) == limit >= 1 /\ Len(group) >= limit
LimitNeverReached(group, limit) == FALSE

\* the mutant of LimitReached: > instead of >=
LimitReachedOffByOne(group, limit) == Len(group) > limit

\* if len(current_group) >= max_segments_per_group
LimitReached(group, limit) == Len(group) >= limit

\* the mutant of OpenGroup: the boundary segment is dropped
OpenGroupEmpty(next_segment) == <<>>

\* current_group = [next_segment]
OpenGroup(next_segment) == <<next_segment>>

\* the mutant of NextGroupId: the increment is forgotten
NextGroupIdStuck(gid) == gid

\* group_id += 1
NextGroupId(gid) == gid + 1

\* the mutant of BoundaryAttempts: a failed request is sent again
BoundaryAttemptsRetry(o) == IF IsFailure(o) THEN 2 ELSE 1

\* requests.post is called once per boundary check, whatever its outcome.
BoundaryAttempts(o) == 1

\* the mutant of NextIndex: the scan stays on the same segment
NextIndexStuck(k) == k

\* for i in range(1, len(segments)): the next iteration takes the next index
NextIndex(k) == k + 1

\* the mutant of HasOpenGroup: a lone last segment is not flushed
HasSeveralOpen(group) == Len(group) > 1

\* if current_group:
HasOpenGroup(group) == Len(group) > 0

\* What the summarization round trip of `group` can end in: no round trip is
\* made for a group the function answers by itself.
SummaryOutcomesFor(group) ==
    IF SummaryRequested(group) THEN SummaryOutcomes ELSE {NoCall}

LogEntry(path, group, o, result) ==
    [path    |-> path,
     outcome |-> IF SummaryRequested(group) THEN o ELSE NoCall,
     warned  |-> result.warned]

CheckEntry(o, result) ==
    [called |-> TRUE, outcome |-> o, belongs |-> result.value, warned |-> result.warned]

NoCheck == [called |-> FALSE, outcome |-> NoCall, belongs |-> FALSE, warned |-> FALSE]

Init ==
    /\ segments \in GroupingInputs
    /\ max_segments_per_group \in 1..MaxLimit
    /\ pc = "start"
    /\ i = 0
    /\ current_group = <<>>
    /\ grouped_data = <<>>
    /\ group_id = 0
    /\ boundary_requests = 0
    /\ summary_requests = 0
    /\ last_check = NoCheck
    /\ emit_log = <<>>
    /\ oracle_ok_seen = FALSE
    /\ c_segments = <<>>
    /\ c_pc = "idle"
    /\ classified_segments = <<>>
    /\ c_log = <<>>
    /\ FilterIdle
    /\ PipelineIdle
    /\ BatchIdle

\* if not segments: return []  /  grouped_data = []; current_group = [segments[0]]; group_id = 0
Start ==
    /\ pc = "start"
    /\ UNCHANGED OutsideGrouping
    /\ IF Len(segments) = 0
       THEN /\ pc' = "done"
            /\ UNCHANGED <<i, current_group>>
       ELSE /\ pc' = "loop"
            /\ i' = 1
            /\ current_group' = <<segments[1]>>
    /\ grouped_data' = <<>>
    /\ group_id' = 0
    /\ UNCHANGED <<segments, max_segments_per_group, boundary_requests,
                   summary_requests, last_check, emit_log, oracle_ok_seen>>

\* An exception leaves the function: the run is aborted at `site`.
Raised(site) ==
    /\ pc' = site
    /\ UNCHANGED <<segments, max_segments_per_group, i, current_group, grouped_data,
                   group_id, boundary_requests, summary_requests, last_check,
                   emit_log, oracle_ok_seen>>

\* One loop iteration in which len(current_group) >= max_segments_per_group.
ForcedSplit ==
    /\ pc = "loop"
    /\ UNCHANGED OutsideGrouping
    /\ i < Len(segments)
    /\ LimitReached(current_group, max_segments_per_group)
    /\ \E so \in SummaryOutcomesFor(current_group) :
         LET next_segment == segments[i + 1]
             summary == summarize_group(current_group, so)
             asked == SummaryRequested(current_group)
         IN  IF summary.raised THEN Raised("summarize_raised")
             ELSE /\ grouped_data' = Emit(grouped_data,
                        GroupRecordLimit(group_id, current_group, summary.value))
                  /\ current_group' = OpenGroup(next_segment)
                  /\ group_id' = NextGroupId(group_id)
                  /\ i' = NextIndex(i)
                  /\ summary_requests' = summary_requests + (IF asked THEN 1 ELSE 0)
                  /\ emit_log' = Append(emit_log, LogEntry("limit", current_group, so, summary))
                  /\ oracle_ok_seen' = (oracle_ok_seen \/ (asked /\ so.kind = "ok"))
                  /\ UNCHANGED <<segments, max_segments_per_group, pc,
                                 boundary_requests, last_check>>

\* One loop iteration in which the oracle is asked whether next_segment belongs.
BoundaryCheck ==
    /\ pc = "loop"
    /\ UNCHANGED OutsideGrouping
    /\ i < Len(segments)
    /\ ~LimitReached(current_group, max_segments_per_group)
    /\ \E bo \in BoundaryOutcomes :
         LET next_segment == segments[i + 1]
             belongs == check_segment_belongs_to_group(bo)
         IN  IF ~PromptBuilt(current_group, next_segment) THEN Raised("check_raised")
             ELSE IF belongs.raised THEN Raised("check_raised")
             ELSE IF belongs.value
             THEN /\ current_group' = Append(current_group, next_segment)
                  /\ i' = NextIndex(i)
                  /\ boundary_requests' = boundary_requests + BoundaryAttempts(bo)
                  /\ last_check' = CheckEntry(bo, belongs)
                  /\ oracle_ok_seen' = (oracle_ok_seen \/ bo.kind = "ok")
                  /\ UNCHANGED <<segments, max_segments_per_group, pc, grouped_data,
                                 group_id, summary_requests, emit_log>>
             ELSE \E so \in SummaryOutcomesFor(current_group) :
                  LET summary == summarize_group(current_group, so)
                      asked == SummaryRequested(current_group)
                  IN  IF summary.raised THEN Raised("summarize_raised")
                      ELSE /\ grouped_data' = Emit(grouped_data,
                                 GroupRecordBoundary(group_id, current_group, summary.value))
                           /\ current_group' = OpenGroup(next_segment)
                           /\ group_id' = NextGroupId(group_id)
                           /\ i' = NextIndex(i)
                           /\ boundary_requests' = boundary_requests + BoundaryAttempts(bo)
                           /\ summary_requests' = summary_requests + (IF asked THEN 1 ELSE 0)
                           /\ last_check' = CheckEntry(bo, belongs)
                           /\ emit_log' = Append(emit_log,
                                 LogEntry("boundary", current_group, so, summary))
                           /\ oracle_ok_seen' =
                                 (oracle_ok_seen \/ bo.kind = "ok" \/ (asked /\ so.kind = "ok"))
                           /\ UNCHANGED <<segments, max_segments_per_group, pc>>

\* After the loop: if current_group: summarize and append; return grouped_data
Flush ==
    /\ pc = "loop"
    /\ UNCHANGED OutsideGrouping
    /\ i >= Len(segments)
    /\ \E so \in SummaryOutcomesFor(current_group) :
         LET summary == summarize_group(current_group, so)
             asked == SummaryRequested(current_group)
         IN  IF ~HasOpenGroup(current_group)
             THEN /\ pc' = "done"
                  /\ UNCHANGED <<segments, max_segments_per_group, i, current_group,
                                 grouped_data, group_id, boundary_requests,
                                 summary_requests, last_check, emit_log, oracle_ok_seen>>
             ELSE IF summary.raised THEN Raised("summarize_raised")
             ELSE /\ grouped_data' = Emit(grouped_data,
                        GroupRecordFlush(group_id, current_group, summary.value))
                  /\ summary_requests' = summary_requests + (IF asked THEN 1 ELSE 0)
                  /\ emit_log' = Append(emit_log, LogEntry("flush", current_group, so, summary))
                  /\ oracle_ok_seen' = (oracle_ok_seen \/ (asked /\ so.kind = "ok"))
                  /\ pc' = "done"
                  /\ UNCHANGED <<segments, max_segments_per_group, i, current_group,
                                 group_id, boundary_requests, last_check>>

Next == Start \/ ForcedSplit \/ BoundaryCheck \/ Flush

Spec == Init /\ [][Next]_vars

\* The scan is sequential code: while a step is possible, one is taken. Every
\* oracle round trip returns or times out, so no step waits forever.
SpecLive == Init /\ [][Next]_vars /\ WF_vars(Next)

\* ----------------------------------------- grouping runs on unvalidated input

\* Segment k of n with one flaw: no text field, the times of the mirrored
\* position (the sequence runs backwards in time), or start and end exchanged.
FlawedSegment(k, n, flaw, at) ==
    LET good == Segment(k, 0)
        mirrored == Segment(n + 1 - k, 0)
    IN  IF flaw = "textless" /\ k = at
        THEN [start |-> good.start, end |-> good.end, label |-> good.label]
        ELSE IF flaw = "backwards"
        THEN [good EXCEPT !.start = mirrored.start, !.end = mirrored.end]
        ELSE IF flaw = "inverted" /\ k = at
        THEN [good EXCEPT !.start = good.end, !.end = good.start]
        ELSE good

Flaws == {"none", "textless", "backwards", "inverted"}

\* What group_segments_with_llm can be handed when nothing upstream validates.
UncheckedInputs ==
    {[k \in 1..n |-> FlawedSegment(k, n, flaw, at)] :
        n \in 1..MaxFlawedSegs, flaw \in Flaws, at \in 1..MaxFlawedSegs}

InitUnchecked ==
    /\ segments \in UncheckedInputs
    /\ max_segments_per_group \in 1..MaxLimit
    /\ pc = "start"
    /\ i = 0
    /\ current_group = <<>>
    /\ grouped_data = <<>>
    /\ group_id = 0
    /\ boundary_requests = 0
    /\ summary_requests = 0
    /\ last_check = NoCheck
    /\ emit_log = <<>>
    /\ oracle_ok_seen = FALSE
    /\ c_segments = <<>>
    /\ c_pc = "idle"
    /\ classified_segments = <<>>
    /\ c_log = <<>>
    /\ FilterIdle
    /\ PipelineIdle
    /\ BatchIdle

SpecUnchecked == InitUnchecked /\ [][Next]_vars

\* --------------------------------------- grouping runs with a limit of 1 or less

\* The caller may pass any integer as max_segments_per_group.
InitLowLimit ==
    /\ segments \in GroupingInputs
    /\ max_segments_per_group \in (0 - LowLimitDepth)..2
    /\ pc = "start"
    /\ i = 0
    /\ current_group = <<>>
    /\ grouped_data = <<>>
    /\ group_id = 0
    /\ boundary_requests = 0
    /\ summary_requests = 0
    /\ last_check = NoCheck
    /\ emit_log = <<>>
    /\ oracle_ok_seen = FALSE
    /\ c_segments = <<>>
    /\ c_pc = "idle"
    /\ classified_segments = <<>>
    /\ c_log = <<>>
    /\ FilterIdle
    /\ PipelineIdle
    /\ BatchIdle

SpecLowLimit == InitLowLimit /\ [][Next]_vars

\* ------------------------------------------------------- classify_with_ollama

\* the mutants of ClosestMatch: only `valid_label in label` is tested / an empty
\* reply matches nothing
ClosestMatchOneWay(label) ==
    LET hits == {k \in 1..Len(CLASSIFICATION_LABELS) :
                    Contains(CLASSIFICATION_LABELS[k], label)}
    IN  IF hits = {} THEN L_explanation
        ELSE CLASSIFICATION_LABELS[CHOOSE k \in hits : \A m \in hits : k <= m]
ClosestMatchNonEmpty(label) ==
    LET hits == {k \in 1..Len(CLASSIFICATION_LABELS) :
                    \/ Contains(CLASSIFICATION_LABELS[k], label)
                    \/ Contains(label, CLASSIFICATION_LABELS[k])}
    IN  IF hits = {} \/ label = <<>> THEN L_explanation
        ELSE CLASSIFICATION_LABELS[CHOOSE k \in hits : \A m \in hits : k <= m]

\* The first label of the list, in list order, that contains the reply or is
\* contained in it (for valid_label in CLASSIFICATION_LABELS: ...).
ClosestMatch(label) ==
    LET hits == {k \in 1..Len(CLASSIFICATION_LABELS) :
                    \/ Contains(CLASSIFICATION_LABELS[k], label)
                    \/ Contains(label, CLASSIFICATION_LABELS[k])}
    IN  IF hits = {} THEN L_explanation
        ELSE CLASSIFICATION_LABELS[CHOOSE k \in hits : \A m \in hits : k <= m]

\* The body of the try block, before the handler.
ClassifyTry(o) ==
    IF o.kind = "transport" THEN Raise                    \* requests.post raises
    ELSE IF o.kind = "status" THEN Warned(L_explanation)  \* status_code != 200
    ELSE IF o.kind = "malformed" THEN Raise               \* json() / ['response'] / .strip() raises
    ELSE LET label == Strip(RemoveQuotes(Lower(Strip(o.text))))
         IN  IF \E k \in 1..Len(CLASSIFICATION_LABELS) : CLASSIFICATION_LABELS[k] = label
             THEN Value(label)
             ELSE Value(ClosestMatch(label))

\* the mutant of classify_with_ollama: no handler, the exception propagates
ClassifyUncaught(o) == ClassifyTry(o)

\* except Exception: return "explanation"
classify_with_ollama(o) ==
    LET r == ClassifyTry(o)
    IN  IF r.raised THEN Warned(L_explanation) ELSE r

\* ---------------------------------------------------------- classify_segments

EmptyText  == <<>>
BlankText  == <<" ","\t">>
TwoWords   == <<"h","i"," ","t","h","e","r","e">>
ThreeWords == <<"n","o","w"," ","w","e"," ","b","e","g","i","n">>

\* The k-th segment of a transcript as the transcriber builds it.
RawSegment(k, text) ==
    [start |-> seconds_to_timestamp(SegDur * (k - 1)),
     end   |-> seconds_to_timestamp(SegDur * k),
     text  |-> text]

\* A segment record without its text field.
TextlessSegment(k) ==
    [start |-> seconds_to_timestamp(SegDur * (k - 1)),
     end   |-> seconds_to_timestamp(SegDur * k)]

ClassifierTexts == <<EmptyText, BlankText, TwoWords, ThreeWords>>

\* Every list of up to MaxClsSegs segments; pick 0 is a segment with no text field.
ClassifierInputs ==
    UNION { {[k \in 1..n |-> IF pick[k] = 0 THEN TextlessSegment(k)
                             ELSE RawSegment(k, ClassifierTexts[pick[k]])] :
               pick \in [1..n -> 0..Len(ClassifierTexts)]} :
            n \in 0..MaxClsSegs }

\* Replies to the classification prompt
ClassifyReplies ==
    { <<"e","x","p","l","a","n","a","t","i","o","n">>,
      <<" ","T","i","p","\n">>,
      <<"\"","w","a","r","n","i","n","g","\"">>,
      <<"c","o","d","e">>,
      <<"a"," ","d","e","m","o","n","s","t","r","a","t","i","o","n",".">>,
      <<"n","o"," ","t","i","p",","," ","a"," ","s","u","m","m","a","r","y">>,
      <<"x","y","z">>,
      <<"\"", " ", "\"">>,
      <<>> }
ClassifyOutcomes == {Ok(t) : t \in ClassifyReplies} \cup OracleFailures

\* The oracle is asked only for a text of at least MinWords words.
ClassifyRequested(text) == Strip(text) # <<>> /\ ~(WordCount(text) < MinWords)

\* segment_copy = segment.copy(); segment_copy['label'] = label
WithLabel(segment, label) ==
    [f \in DOMAIN segment \cup {"label"} |->
        IF f = "label" THEN label ELSE segment[f]]

\* the mutant of InputAfterStep: the label is written into the input record
InputLabelledInPlace(segs, k, label) ==
    [segs EXCEPT ![k] = WithLabel(segs[k], label)]

\* The input list after one iteration: segment.copy() takes the label, the
\* caller's records are not written.
InputAfterStep(segs, k, label) == segs

\* the mutant of SegmentLabel: every segment is sent to the oracle
SegmentLabelAlwaysAsked(text, o) == classify_with_ollama(o)

\* The label of one segment; o is the outcome of the oracle round trip, should
\* one be made.
SegmentLabel(text, o) ==
    IF Strip(text) = <<>> THEN Value(L_noise)
    ELSE IF WordCount(text) < MinWords THEN Value(L_filler)
    ELSE classify_with_ollama(o)

CInit ==
    /\ c_segments \in ClassifierInputs
    /\ c_pc = "loop"
    /\ classified_segments = <<>>
    /\ c_log = <<>>
    /\ segments = <<>>
    /\ max_segments_per_group = 1
    /\ pc = "idle"
    /\ i = 0
    /\ current_group = <<>>
    /\ grouped_data = <<>>
    /\ group_id = 0
    /\ boundary_requests = 0
    /\ summary_requests = 0
    /\ last_check = NoCheck
    /\ emit_log = <<>>
    /\ oracle_ok_seen = FALSE
    /\ FilterIdle
    /\ PipelineIdle
    /\ BatchIdle

\* One iteration of: for segment in segments
ClassifyStep ==
    /\ c_pc = "loop"
    /\ UNCHANGED OutsideClassifier
    /\ Len(classified_segments) < Len(c_segments)
    /\ \E o \in ClassifyOutcomes :
         LET segment == c_segments[Len(classified_segments) + 1]
             text == Get(segment, "text", <<>>)
             label == SegmentLabel(text, o)
         IN  IF label.raised
             THEN /\ c_pc' = "raised"
                  /\ UNCHANGED <<c_segments, classified_segments, c_log>>
             ELSE /\ classified_segments' =
                        Append(classified_segments, WithLabel(segment, label.value))
                  /\ c_log' = Append(c_log,
                        [outcome |-> IF ClassifyRequested(text) THEN o ELSE NoCall,
                         warned  |-> label.warned])
                  /\ c_segments' = InputAfterStep(c_segments,
                        Len(classified_segments) + 1, label.value)
                  /\ UNCHANGED c_pc

\* return classified_segments
ClassifyReturn ==
    /\ c_pc = "loop"
    /\ UNCHANGED OutsideClassifier
    /\ Len(classified_segments) = Len(c_segments)
    /\ c_pc' = "done"
    /\ UNCHANGED <<c_segments, classified_segments, c_log>>

CNext == ClassifyStep \/ ClassifyReturn

SpecClassify == CInit /\ [][CNext]_vars

\* ------------------------------------------------------------ filter_segments

IRRELEVANT_LABELS == {L_greeting, L_farewell, L_noise, L_filler, L_off_topic}

\* string.punctuation (without the backquote, which no text of the model holds)
Punctuation ==
    {"!", "\"", "#", "$", "%", "&", "'", "(", ")", "*", "+", ",", "-", ".", "/",
     ":", ";", "<", "=", ">", "?", "@", "[", "\\", "]", "^", "_", "{", "|",
     "}", "~"}

NotPunctuation(c) == c \notin Punctuation

\* text.translate(str.maketrans('', '', string.punctuation))
RemovePunctuation(s) == SelectSeq(s, NotPunctuation)

\* Every run of whitespace of a stripped string becomes one space.
RECURSIVE CollapseSpaces(_)
CollapseSpaces(s) ==
    IF s = <<>> THEN <<>>
    ELSE IF ~IsSpace(Head(s)) THEN <<Head(s)>> \o CollapseSpaces(Tail(s))
    ELSE IF Len(s) > 1 /\ IsSpace(s[2]) THEN CollapseSpaces(Tail(s))
    ELSE <<" ">> \o CollapseSpaces(Tail(s))

\* ' '.join(text.split())
JoinWords(s) == CollapseSpaces(Strip(s))

normalize_text(text) == JoinWords(RemovePunctuation(Lower(text)))

\* the mutant of is_duplicate: the set of seen texts is not consulted
IsDuplicateOnlyEmpty(segment, seen) ==
    LET normalized == normalize_text(Get(segment, "text", <<>>))
    IN  [duplicate |-> normalized = <<>>, seen |-> seen \cup {normalized}]

\* The verdict, and seen_texts after the call.
is_duplicate(segment, seen) ==
    LET normalized == normalize_text(Get(segment, "text", <<>>))
    IN  IF normalized = <<>> THEN [duplicate |-> TRUE, seen |-> seen]
        ELSE IF normalized \in seen THEN [duplicate |-> TRUE, seen |-> seen]
        ELSE [duplicate |-> FALSE, seen |-> seen \cup {normalized}]

\* Texts and labels of classified segments; the last two lack a field.
FilterPool ==
    << [text  |-> <<"H","e","l","l","o",","," ","w","o","r","l","d",".">>,
        label |-> L_explanation],
       [text  |-> <<"h","e","l","l","o"," "," ","w","o","r","l","d">>,
        label |-> L_tip],
       [text  |-> <<"?","!">>, label |-> L_explanation],
       [text  |-> <<" ">>, label |-> L_noise],
       [text  |-> <<"R","e","c","a","p">>, label |-> L_greeting],
       [text  |-> <<"B","y","e">>, label |-> <<"F","a","r","e","w","e","l","l">>],
       [text  |-> <<"r","e","c","a","p",".">>],
       [label |-> L_explanation] >>

\* The k-th segment of a classified transcript, with the fields of pool entry c.
ClassifiedSegment(k, c) ==
    LET entry == FilterPool[c]
    IN  [f \in {"start", "end"} \cup DOMAIN entry |->
            IF f = "start" THEN seconds_to_timestamp(SegDur * (k - 1))
            ELSE IF f = "end" THEN seconds_to_timestamp(SegDur * k)
            ELSE entry[f]]

FilterInputs ==
    UNION {{[k \in 1..n |-> ClassifiedSegment(k, c[k])] :
                c \in [1..n -> 1..Len(FilterPool)]} : n \in 0..MaxFilterSegs}

\* No grouping run / no classification run is in progress.
GroupingIdle ==
    /\ segments = <<>>
    /\ max_segments_per_group = 1
    /\ pc = "idle"
    /\ i = 0
    /\ current_group = <<>>
    /\ grouped_data = <<>>
    /\ group_id = 0
    /\ boundary_requests = 0
    /\ summary_requests = 0
    /\ last_check = NoCheck
    /\ emit_log = <<>>
    /\ oracle_ok_seen = FALSE

ClassifierIdle ==
    /\ c_segments = <<>>
    /\ c_pc = "idle"
    /\ classified_segments = <<>>
    /\ c_log = <<>>

\* filtered = []; seen_texts = set(); stats = {...}
FInit ==
    /\ f_segments \in FilterInputs
    /\ f_logger \in BOOLEAN
    /\ f_pc = "loop"
    /\ f_i = 0
    /\ filtered = <<>>
    /\ seen_texts = {}
    /\ stats = NewStats(Len(f_segments))
    /\ f_pass = 1
    /\ f_first = <<>>
    /\ GroupingIdle
    /\ ClassifierIdle
    /\ PipelineIdle
    /\ BatchIdle

\* the mutant of FirstFailedCheck: the label is tested before the text
LabelCheckedFirst(text, label, duplicate) ==
    IF label \in IRRELEVANT_LABELS THEN "irrelevant_label"
    ELSE IF text = <<>> THEN "empty"
    ELSE IF duplicate THEN "duplicate"
    ELSE "kept"

\* The counter one segment goes to: the first test it fails, in the order of
\* the loop body, or 'kept'.
FirstFailedCheck(text, label, duplicate) ==
    IF text = <<>> THEN "empty"
    ELSE IF label \in IRRELEVANT_LABELS THEN "irrelevant_label"
    ELSE IF duplicate THEN "duplicate"
    ELSE "kept"

\* the mutant of SeenAfter: is_duplicate is called for every segment
SeenAlwaysRecorded(outcome, verdict, seen) == verdict.seen

\* seen_texts after one iteration: is_duplicate is called, and may add to the
\* set, only after the first two tests have passed.
SeenAfter(outcome, verdict, seen) ==
    IF outcome \in {"duplicate", "kept"} THEN verdict.seen ELSE seen

\* One iteration of: for segment in segments
FilterStep ==
    /\ f_pc = "loop"
    /\ UNCHANGED OutsideFilter
    /\ f_i < Len(f_segments)
    /\ LET segment == f_segments[f_i + 1]
           text == Strip(Get(segment, "text", <<>>))
           label == Lower(Get(segment, "label", <<>>))
           verdict == is_duplicate(segment, seen_texts)
           outcome == FirstFailedCheck(text, label, verdict.duplicate)
       IN  /\ stats' = [stats EXCEPT ![outcome] = @ + 1]
           /\ seen_texts' = SeenAfter(outcome, verdict, seen_texts)
           /\ filtered' = IF outcome = "kept" THEN Append(filtered, segment) ELSE filtered
    /\ f_i' = f_i + 1
    /\ UNCHANGED <<f_segments, f_logger, f_pc, f_pass, f_first>>

\* logger.info(f"  Reduction: {100 * (1 - stats['kept'] / stats['total']):.1f}%")
ReductionRaises(logger, st) == logger /\ st.total = 0

\* After the loop: the summary lines, return filtered
FilterReturn ==
    /\ f_pc = "loop"
    /\ UNCHANGED OutsideFilter
    /\ f_i = Len(f_segments)
    /\ f_pc' = IF ReductionRaises(f_logger, stats) THEN "raised" ELSE "done"
    /\ UNCHANGED <<f_segments, f_logger, f_i, filtered, seen_texts, stats, f_pass, f_first>>

\* filter_segments(filter_segments(L)): the output of run 1 is the input of run 2.
Refilter ==
    /\ f_pc = "done"
    /\ f_pass = 1
    /\ UNCHANGED OutsideFilter
    /\ f_first' = filtered
    /\ f_segments' = filtered
    /\ f_pass' = 2
    /\ f_pc' = "loop"
    /\ f_i' = 0
    /\ filtered' = <<>>
    /\ seen_texts' = {}
    /\ stats' = NewStats(Len(filtered))
    /\ UNCHANGED f_logger

FNext == FilterStep \/ FilterReturn \/ Refilter

SpecFilter == FInit /\ [][FNext]_vars

\* ------------------------------------------------- main / pipeline_part1 + part2

\* The steps of main(), in program order; "group" and "save" are the two halves
\* of group_and_summarize.
MainStages ==
    <<"transcribe", "classify", "filter", "group", "save", "cut", "gifs",
      "relevance", "draft", "generate", "html">>

\* The steps of pipeline_part1 followed by pipeline_part2, which reads
\* grouped.json back and cuts no clips.
PartStages ==
    <<"transcribe", "classify", "filter", "group", "save", "load", "gifs",
      "relevance", "draft", "generate", "html">>

Stages(entry) == IF entry = "main_cli" THEN MainStages ELSE PartStages

\* Clip cutting, preview rendering, relevance filtering, draft assembly,
\* document generation, page building.
DownstreamStages == {"cut", "gifs", "relevance", "draft", "generate", "html"}

\* The steps of pipeline_part1
PartOneStages == {"transcribe", "classify", "filter", "group", "save"}

StageIndex(entry, stage) ==
    CHOOSE k \in 1..Len(Stages(entry)) : Stages(entry)[k] = stage

\* Where control goes when `stage` returns.
StageAfter(entry, stage) ==
    IF StageIndex(entry, stage) = Len(Stages(entry)) THEN "complete"
    ELSE Stages(entry)[StageIndex(entry, stage) + 1]

\* the mutant of OnException: the exception is swallowed and the run goes on
OnExceptionContinue(entry, stage) == StageAfter(entry, stage)

\* Where control goes when `stage` raises: main() and pipeline_part1 log and
\* sys.exit(1); pipeline_part2 has no handler.
OnException(entry, stage) ==
    IF entry = "main_cli" \/ stage \in PartOneStages THEN "exit1" ELSE "crashed"

PInit ==
    /\ p_entry \in {"main_cli", "by_part"}
    /\ p_pc = "transcribe"
    /\ p_started = <<>>
    /\ grouped_json = "absent"
    /\ p_save_failed = FALSE
    /\ p_counts = [segments |-> 0, filtered |-> 0, groups |-> 0]
    /\ GroupingIdle
    /\ ClassifierIdle
    /\ FilterIdle
    /\ BatchIdle

\* transcript_data = transcribe_video(...)
PTranscribe ==
    /\ p_pc = "transcribe"
    /\ UNCHANGED OutsidePipeline
    /\ p_started' = Append(p_started, "transcribe")
    /\ \E ok \in BOOLEAN, n \in 0..MaxPipeSegs :
         IF ok THEN /\ p_pc' = StageAfter(p_entry, "transcribe")
                    /\ p_counts' = [p_counts EXCEPT !.segments = n]
         ELSE /\ p_pc' = OnException(p_entry, "transcribe")
              /\ UNCHANGED p_counts
    /\ UNCHANGED <<p_entry, grouped_json, p_save_failed>>

\* classified_segments = classify_segments(...): one output per input
PClassify ==
    /\ p_pc = "classify"
    /\ UNCHANGED OutsidePipeline
    /\ p_started' = Append(p_started, "classify")
    /\ \E ok \in BOOLEAN :
         p_pc' = IF ok THEN StageAfter(p_entry, "classify")
                 ELSE OnException(p_entry, "classify")
    /\ UNCHANGED <<p_entry, grouped_json, p_save_failed, p_counts>>

\* filtered_segments = filter_segments(classified_segments, logger)
PFilter ==
    /\ p_pc = "filter"
    /\ UNCHANGED OutsidePipeline
    /\ p_started' = Append(p_started, "filter")
    /\ IF ReductionRaises(TRUE, NewStats(p_counts.segments))
       THEN /\ p_pc' = OnException(p_entry, "filter")
            /\ UNCHANGED p_counts
       ELSE \E m \in 0..p_counts.segments :
               /\ p_pc' = StageAfter(p_entry, "filter")
               /\ p_counts' = [p_counts EXCEPT !.filtered = m]
    /\ UNCHANGED <<p_entry, grouped_json, p_save_failed>>

\* group_and_summarize: grouped_data = group_segments_with_llm(...)
PGroup ==
    /\ p_pc = "group"
    /\ UNCHANGED OutsidePipeline
    /\ p_started' = Append(p_started, "group")
    /\ \E ok \in BOOLEAN, g \in 0..p_counts.filtered :
         /\ (g = 0) <=> (p_counts.filtered = 0)
         /\ IF ok THEN /\ p_pc' = StageAfter(p_entry, "group")
                       /\ p_counts' = [p_counts EXCEPT !.groups = g]
            ELSE /\ p_pc' = OnException(p_entry, "group")
                 /\ UNCHANGED p_counts
    /\ UNCHANGED <<p_entry, grouped_json, p_save_failed>>

\* group_and_summarize: save_json(grouped_data, output_file). A failure leaves
\* no file (mkdir or open raised) or an incomplete one (json.dump raised).
PSave ==
    /\ p_pc = "save"
    /\ UNCHANGED OutsidePipeline
    /\ p_started' = Append(p_started, "save")
    /\ \E file \in {"written", "absent", "partial"} :
         /\ grouped_json' = file
         /\ p_save_failed' = (file # "written")
         /\ p_pc' = IF file = "written" THEN StageAfter(p_entry, "save")
                    ELSE OnException(p_entry, "save")
    /\ UNCHANGED <<p_entry, p_counts>>

\* pipeline_part2: grouped_data = load_json(output_dir / "grouped.json")
PLoad ==
    /\ p_pc = "load"
    /\ UNCHANGED OutsidePipeline
    /\ p_started' = Append(p_started, "load")
    /\ \E ok \in BOOLEAN :
         p_pc' = IF ok /\ grouped_json = "written" THEN StageAfter(p_entry, "load")
                 ELSE OnException(p_entry, "load")
    /\ UNCHANGED <<p_entry, grouped_json, p_save_failed, p_counts>>

\* Steps 5 to 10
PDownstream ==
    /\ p_pc \in DownstreamStages
    /\ UNCHANGED OutsidePipeline
    /\ p_started' = Append(p_started, p_pc)
    /\ \E ok \in BOOLEAN :
         p_pc' = IF ok THEN StageAfter(p_entry, p_pc) ELSE OnException(p_entry, p_pc)
    /\ UNCHANGED <<p_entry, grouped_json, p_save_failed, p_counts>>

PNext ==
    PTranscribe \/ PClassify \/ PFilter \/ PGroup \/ PSave \/ PLoad \/ PDownstream

SpecPipeline == PInit /\ [][PNext]_vars

\* -------------------------------------------------- classify_batch_with_ollama

\* What json.loads makes of the reply text: it raises ("invalid"), or yields a
\* value that is not a list ("object"), or a list of items, each a string or
\* a number.
JStr(s) == [type |-> "str", s |-> s]
JNum == [type |-> "num", s |-> <<>>]
JInvalid == [type |-> "invalid", items |-> <<>>]
JObject == [type |-> "object", items |-> <<>>]
JList(items) == [type |-> "list", items |-> items]

\* Items of a reply list: a label, a label in other case and spacing, a word
\* that is no label, a number.
BatchItems ==
    { JStr(L_tip),
      JStr(<<" ","W","a","r","n","i","n","g"," ">>),
      JStr(<<"b","a","n","a","n","a">>),
      JNum }

BatchJson ==
    {JInvalid, JObject} \cup
    UNION {{JList(items) : items \in [1..n -> BatchItems]} : n \in 0..(MaxBatchSegs + 1)}

BatchOk(json) == [kind |-> "ok", json |-> json]
BatchOutcomes == {BatchOk(j) : j \in BatchJson} \cup OracleFailures

BatchInputs ==
    UNION {{[k \in 1..n |-> RawSegment(k, text[k])] :
                text \in [1..n -> {TwoWords, ThreeWords}]} : n \in 0..MaxBatchSegs}

\* [l.lower().strip() for l in labels]; a number has no lower()
BatchLabels(items) ==
    IF \E k \in 1..Len(items) : items[k].type # "str" THEN Raise
    ELSE Value([k \in 1..Len(items) |-> Strip(Lower(items[k].s))])

\* the mutant of BatchParse: the length of the list is not compared
BatchParseAnyLength(segs, o) ==
    IF o.kind # "ok" \/ o.json.type # "list" THEN Raise
    ELSE BatchLabels(o.json.items)

\* The labels the inner try block returns, if it returns: the reply parses as a
\* list of len(segments) items and every item has lower() and strip().
BatchParse(segs, o) ==
    IF o.kind # "ok" \/ o.json.type # "list" THEN Raise
    ELSE IF Len(o.json.items) # Len(segs) THEN Raise
    ELSE BatchLabels(o.json.items)

BInit ==
    /\ b_segments \in BatchInputs
    /\ b_pc = "request"
    /\ b_labels = <<>>
    /\ b_reply = NoCall
    /\ b_log = <<>>
    /\ GroupingIdle
    /\ ClassifierIdle
    /\ FilterIdle
    /\ PipelineIdle

\* The batch request and the attempt to return its labels.
BatchRequest ==
    /\ b_pc = "request"
    /\ UNCHANGED OutsideBatch
    /\ \E o \in BatchOutcomes :
         LET parsed == BatchParse(b_segments, o)
         IN  /\ b_reply' = o
             /\ IF parsed.raised
                THEN b_pc' = "fallback" /\ UNCHANGED b_labels
                ELSE b_pc' = "done" /\ b_labels' = parsed.value
    /\ UNCHANGED <<b_segments, b_log>>

\* One element of: [classify_with_ollama(seg['text'], model) for seg in segments]
BatchFallbackStep ==
    /\ b_pc = "fallback"
    /\ UNCHANGED OutsideBatch
    /\ Len(b_labels) < Len(b_segments)
    /\ \E o \in ClassifyOutcomes :
         LET label == classify_with_ollama(o)
         IN  IF label.raised
             THEN b_pc' = "raised" /\ UNCHANGED <<b_labels, b_log>>
             ELSE /\ b_labels' = Append(b_labels, label.value)
                  /\ b_log' = Append(b_log, o)
                  /\ UNCHANGED b_pc
    /\ UNCHANGED <<b_segments, b_reply>>

\* The fallback's list is returned.
BatchFallbackReturn ==
    /\ b_pc = "fallback"
    /\ UNCHANGED OutsideBatch
    /\ Len(b_labels) = Len(b_segments)
    /\ b_pc' = "done"
    /\ UNCHANGED <<b_segments, b_labels, b_reply, b_log>>

BNext == BatchRequest \/ BatchFallbackStep \/ BatchFallbackReturn

SpecBatch == BInit /\ [][BNext]_vars

\* ===================================================================== claims

\* The segments of the emitted groups, concatenated in emission order.
RECURSIVE Flat(_)
Flat(groups) ==
    IF Len(groups) = 0 THEN <<>>
    ELSE groups[1].group_segments \o Flat(Tail(groups))

\* The input segments the scan has not looked at yet.
Unprocessed == SubSeq(segments, i + 1, Len(segments))

GroupSize(k) == Len(grouped_data[k].group_segments)

\* C1: at every step of the scan, emitted segments ++ open group ++ unprocessed
\* segments is the input, and the returned groups concatenate to the input.
C1_OrderPreserved ==
    /\ pc = "loop" => Flat(grouped_data) \o current_group \o Unprocessed = segments
    /\ pc = "done" => Flat(grouped_data) = segments

C1_Witness ==
    /\ pc = "done"
    /\ Len(segments) >= 4
    /\ Len(grouped_data) >= 2
    /\ \E k \in 1..Len(grouped_data) : GroupSize(k) >= 2

\* C2: no emitted group holds more than max_segments_per_group segments.
C2_SafetyBound ==
    \A k \in 1..Len(grouped_data) : GroupSize(k) <= max_segments_per_group

C2_Witness ==
    /\ max_segments_per_group >= 2
    /\ \E k \in 1..Len(grouped_data) :
         /\ GroupSize(k) = max_segments_per_group
         /\ emit_log[k].path = "limit"

\* C3: the k-th emitted group (from 0) has group_id k, on every emission path.
C3_IdsSequential ==
    \A k \in 1..Len(grouped_data) : grouped_data[k].group_id = k - 1

C3_Witness ==
    /\ pc = "done"
    /\ \A path \in {"limit", "boundary", "flush"} :
         \E k \in 1..Len(grouped_data) : emit_log[k].path = path

\* C4: a finished run over a non-empty input has emitted the open group last:
\* the final group comes from the flush and ends with the last input segment.
C4_TerminalFlush ==
    (pc = "done" /\ Len(segments) > 0) =>
        /\ Len(grouped_data) >= 1
        /\ emit_log[Len(emit_log)].path = "flush"
        /\ LET last == grouped_data[Len(grouped_data)].group_segments
           IN  last # <<>> /\ last[Len(last)] = segments[Len(segments)]

C4_Witness ==
    /\ pc = "done"
    /\ Len(grouped_data) >= 2
    /\ GroupSize(Len(grouped_data)) = 1
    /\ emit_log[Len(emit_log)].path = "flush"

\* C5: a group of exactly one segment carries that segment's text as its
\* summary, and no summarization request is made for it.
C5_SingleSegmentShortcut ==
    /\ \A k \in 1..Len(grouped_data) :
         GroupSize(k) = 1 =>
            /\ grouped_data[k].group_summary = grouped_data[k].group_segments[1].text
            /\ emit_log[k].outcome = NoCall
    /\ summary_requests = Cardinality({k \in 1..Len(grouped_data) : GroupSize(k) # 1})

C5_Witness ==
    /\ pc = "done"
    /\ \E k \in 1..Len(grouped_data) : GroupSize(k) = 1
    /\ \E k \in 1..Len(grouped_data) : GroupSize(k) >= 2
    /\ summary_requests >= 1

\* The reply says YES somewhere, in any letter case.
SaysYes(t) ==
    \E k \in 1..(Len(t) - 2) :
        /\ t[k] \in {"y", "Y"}
        /\ t[k + 1] \in {"e", "E"}
        /\ t[k + 2] \in {"s", "S"}

\* C6: the boundary decision is "belongs" exactly when the oracle call failed
\* or its reply contains YES in any letter case; the check never raises.
C6_BoundaryDecision ==
    /\ pc # "check_raised"
    /\ last_check.called =>
          (last_check.belongs <=>
              \/ IsFailure(last_check.outcome)
              \/ (last_check.outcome.kind = "ok" /\ SaysYes(last_check.outcome.text)))

C6_Witness ==
    /\ last_check.called
    /\ last_check.outcome = Ok(<<"n","o",","," ","e","y","e","s">>)
    /\ last_check.belongs
    /\ Len(current_group) >= 2

\* C7: when every oracle call of the run failed, every boundary check said
\* "belongs", the groups are the consecutive chunks of max_segments_per_group
\* segments (the last one holding the remainder) and no summary is empty.
C7_AllCallsFail ==
    /\ (~oracle_ok_seen /\ last_check.called) => last_check.belongs
    /\ (pc = "done" /\ ~oracle_ok_seen) =>
          LET n == Len(segments)
              m == max_segments_per_group
              c == Len(grouped_data)
          IN  /\ c = (n + m - 1) \div m
              /\ \A k \in 1..c :
                    /\ GroupSize(k) = (IF k < c THEN m ELSE n - m * (c - 1))
                    /\ grouped_data[k].group_summary # <<>>

C7_Witness ==
    /\ pc = "done"
    /\ ~oracle_ok_seen
    /\ boundary_requests >= 2
    /\ summary_requests >= 2
    /\ Len(grouped_data) = 3
    /\ GroupSize(3) = 1

LabelSet == {CLASSIFICATION_LABELS[k] : k \in 1..Len(CLASSIFICATION_LABELS)}

\* C8: classification never raises, every classified segment carries one label
\* of the fixed set, and a failed oracle call yields 'explanation'.
C8_ClassifierTotal ==
    /\ c_pc # "raised"
    /\ Len(c_log) = Len(classified_segments)
    /\ \A k \in 1..Len(classified_segments) :
          /\ "label" \in DOMAIN classified_segments[k]
          /\ classified_segments[k].label \in LabelSet
          /\ IsFailure(c_log[k].outcome) => classified_segments[k].label = L_explanation

C8_Witness ==
    /\ c_pc = "done"
    /\ \A kind \in FailureKinds :
          \E k \in 1..Len(c_log) : c_log[k].outcome.kind = kind

\* The two fixed forms of the summarizer's fallback.
IsFailureMarker(s) ==
    \/ s = SummaryFailed
    \/ /\ Len(s) >= Len(SectionCovering) + Len(Ellipsis)
       /\ SubSeq(s, 1, Len(SectionCovering)) = SectionCovering
       /\ SubSeq(s, Len(s) - Len(Ellipsis) + 1, Len(s)) = Ellipsis

C10_EmptyReplyFallsBack ==
    \A k \in 1..Len(grouped_data) :
        (emit_log[k].outcome.kind = "ok" /\ Strip(emit_log[k].outcome.text) = <<>>) =>
           LET whole == combined_text(grouped_data[k].group_segments)
           IN  /\ grouped_data[k].group_summary # <<>>
               /\ \E n \in 1..Len(whole) :
                     Contains(Take(whole, n), grouped_data[k].group_summary)

\* C11: a summary produced by the oracle has at most WordLimit words.
C11_WithinWordLimit ==
    \A k \in 1..Len(grouped_data) :
        emit_log[k].outcome.kind = "ok" =>
            WordCount(grouped_data[k].group_summary) <= WordLimit

LimitEmits == Cardinality({k \in 1..Len(emit_log) : emit_log[k].path = "limit"})

\* C12: one boundary request per scanned segment that the safety limit did not
\* split off, none retried; one summarization request per emitted group of two
\* or more segments and none for a single-segment group.
C12_RequestsBounded ==
    /\ (pc \in {"loop", "done"} /\ Len(segments) > 0) =>
          boundary_requests + LimitEmits = i - 1
    /\ Len(segments) > 0 => boundary_requests <= Len(segments) - 1
    /\ Len(segments) = 0 => boundary_requests = 0
    /\ summary_requests <= Len(grouped_data)
    /\ summary_requests =
          Cardinality({k \in 1..Len(emit_log) : emit_log[k].outcome # NoCall})
    /\ \A k \in 1..Len(grouped_data) :
          (emit_log[k].outcome # NoCall) <=> GroupSize(k) >= 2

C12_Witness ==
    /\ pc = "done"
    /\ LimitEmits >= 1
    /\ boundary_requests >= 2
    /\ summary_requests >= 1
    /\ summary_requests < Len(grouped_data)
    /\ IsFailure(last_check.outcome)

\* C13: every run ends with the group list returned, and every loop step moves
\* on to the next segment, whatever the oracle did.
C13_ScanTerminates ==
    /\ <>(pc = "done")
    /\ [][pc = "loop" =>
            \/ (pc' = "loop" /\ i' = i + 1)
            \/ (pc' = "done" /\ i' = i /\ i = Len(segments))]_vars

C13_Witness ==
    /\ pc = "done"
    /\ i = Len(segments)
    /\ Len(segments) >= 4
    /\ last_check.outcome.kind = "transport"
    /\ \E k \in 1..Len(emit_log) : emit_log[k].outcome.kind = "malformed"

\* C14: every emitted group starts where its first segment starts and ends
\* where its last segment ends, on the three emission paths.
C14_GroupTimes ==
    \A k \in 1..Len(grouped_data) :
        LET gs == grouped_data[k].group_segments
        IN  /\ grouped_data[k].group_start_time = gs[1].start
            /\ grouped_data[k].group_end_time = gs[Len(gs)].end

C14_Witness ==
    /\ pc = "done"
    /\ \A path \in {"limit", "boundary", "flush"} :
         \E k \in 1..Len(grouped_data) :
            /\ emit_log[k].path = path
            /\ (path # "boundary" => GroupSize(k) >= 2)

\* a is b with some elements left out, the others in their order
RECURSIVE IsSubsequence(_, _)
IsSubsequence(a, b) ==
    IF a = <<>> THEN TRUE
    ELSE IF b = <<>> THEN FALSE
    ELSE IF Head(a) = Head(b) THEN IsSubsequence(Tail(a), Tail(b))
    ELSE IsSubsequence(a, Tail(b))

NormalizedText(segment) == normalize_text(Get(segment, "text", <<>>))

\* C15: the list returned by filter_segments is an order-preserving subsequence
\* of its input; every kept segment has a non-empty trimmed text, a label outside
\* the irrelevant set and a non-empty normalized text, and no two kept segments
\* have the same normalized text.
C15_FilterOutput ==
    f_pc = "done" =>
        /\ IsSubsequence(filtered, f_segments)
        /\ \A k \in 1..Len(filtered) :
              /\ Strip(Get(filtered[k], "text", <<>>)) # <<>>
              /\ Get(filtered[k], "label", <<>>) \notin IRRELEVANT_LABELS
              /\ NormalizedText(filtered[k]) # <<>>
              /\ \A j \in 1..Len(filtered) :
                    j # k => NormalizedText(filtered[j]) # NormalizedText(filtered[k])

\* A finished run that kept two segments and dropped a third whose raw text
\* differs from a kept one only in case, punctuation and spacing.
C15_Witness ==
    /\ f_pc = "done"
    /\ f_pass = 1
    /\ Len(filtered) = 2
    /\ stats.duplicate >= 1
    /\ \E k \in 1..Len(f_segments) :
          /\ \A j \in 1..Len(filtered) : filtered[j] # f_segments[k]
          /\ NormalizedText(f_segments[k]) # <<>>
          /\ Lower(Get(f_segments[k], "label", <<>>)) \notin IRRELEVANT_LABELS
          /\ \E j \in 1..Len(filtered) :
                /\ NormalizedText(filtered[j]) = NormalizedText(f_segments[k])
                /\ Get(filtered[j], "text", <<>>) # Get(f_segments[k], "text", <<>>)

\* C16: a second run of filter_segments on the output of a first run returns
\* that output unchanged: nothing is dropped and the order is kept.
C16_FilterIdempotent ==
    (f_pass = 2 /\ f_pc \in {"done", "raised"}) =>
        /\ f_pc = "done"
        /\ filtered = f_first
        /\ stats.kept = stats.total

\* Without a logger the second run returns the output of the first.
RefilterWithoutLogger ==
    (f_pass = 2 /\ f_pc \in {"done", "raised"} /\ ~f_logger) =>
        /\ f_pc = "done"
        /\ filtered = f_first
        /\ stats.kept = stats.total

\* With a logger the second run raises exactly when the first kept nothing.
RefilterRaisesOnEmpty ==
    (f_pass = 2 /\ f_pc \in {"done", "raised"} /\ f_logger) =>
        /\ (f_pc = "raised") <=> (f_first = <<>>)
        /\ f_pc = "done" => (filtered = f_first /\ stats.kept = stats.total)

\* The k-th output record is the k-th input record plus a label field.
IsLabelledCopy(out, in) ==
    /\ DOMAIN out = DOMAIN in \cup {"label"}
    /\ \A f \in DOMAIN in \ {"label"} : out[f] = in[f]

\* C17: classify_segments never writes its input: the input list is the same
\* after every step, and the returned list has the input's length and order,
\* each element being the input segment plus a label field.
C17_InputUntouched ==
    /\ [](/\ Len(classified_segments) <= Len(c_segments)
          /\ c_pc = "done" => Len(classified_segments) = Len(c_segments)
          /\ \A k \in 1..Len(classified_segments) :
                IsLabelledCopy(classified_segments[k], c_segments[k]))
    /\ [][c_segments' = c_segments]_vars
    /\ [](\A k \in 1..Len(c_segments) : "label" \notin DOMAIN c_segments[k])

C17_Witness ==
    /\ c_pc = "done"
    /\ Len(classified_segments) >= 3
    /\ \E k \in 1..Len(c_segments) : "text" \notin DOMAIN c_segments[k]
    /\ \E k \in 1..Len(c_log) : c_log[k].outcome.kind = "ok"
    /\ \E k \in 1..Len(c_log) : c_log[k].outcome = NoCall

\* C18: a downstream stage is started only after save_json has written
\* grouped.json completely, and once the save has failed the run is aborted and
\* no downstream stage is ever started.
C18_GroupedBarrier ==
    /\ \A k \in 1..Len(p_started) :
          p_started[k] \in DownstreamStages =>
              /\ grouped_json = "written"
              /\ \E j \in 1..(k - 1) : p_started[j] = "save"
    /\ p_save_failed =>
          /\ p_pc = "exit1"
          /\ grouped_json # "written"
          /\ \A k \in 1..Len(p_started) : p_started[k] \notin DownstreamStages

C18_Witness ==
    /\ p_pc = "complete"
    /\ p_entry = "main_cli"
    /\ p_counts.groups >= 2
    /\ grouped_json = "written"
    /\ \A d \in DownstreamStages : \E k \in 1..Len(p_started) : p_started[k] = d

\* C19: every oracle failure that a fallback of the grouping stage absorbs
\* leaves a warning line: a failed boundary check and a failed summarization
\* request are each followed by a print, whatever the kind of failure.
C19_FailuresObservable ==
    /\ (last_check.called /\ IsFailure(last_check.outcome)) => last_check.warned
    /\ \A k \in 1..Len(emit_log) : IsFailure(emit_log[k].outcome) => emit_log[k].warned

\* The classifier prints a warning for every failed request.
ClassifierFailuresWarned ==
    \A k \in 1..Len(c_log) : IsFailure(c_log[k].outcome) => c_log[k].warned

\* The grouping stage prints a warning for a request that raised, and only then.
GroupingWarnsOnExceptionOnly ==
    /\ last_check.called =>
          (last_check.warned <=> last_check.outcome.kind \in {"transport", "malformed"})
    /\ \A k \in 1..Len(emit_log) :
          emit_log[k].warned <=> emit_log[k].outcome.kind \in {"transport", "malformed"}

\* The second of time a timestamp string stands for.
TimeOf(ts) ==
    CHOOSE t \in 0..(SegDur * (MaxSegs + MaxFlawedSegs + 1)) : seconds_to_timestamp(t) = ts

\* Starts and ends never decrease along the sequence, and no segment ends
\* before it starts.
Monotonic(segs) ==
    \A k \in 1..Len(segs) :
        /\ TimeOf(segs[k].start) <= TimeOf(segs[k].end)
        /\ k > 1 => /\ TimeOf(segs[k - 1].start) <= TimeOf(segs[k].start)
                    /\ TimeOf(segs[k - 1].end) <= TimeOf(segs[k].end)

Malformed(segs) ==
    \/ \E k \in 1..Len(segs) : ~HasText(segs[k])
    \/ ~Monotonic(segs)

\* C20: a grouping run on an input with a segment without text, or with
\* timestamps that are not non-decreasing, never returns a group list: it is
\* aborted by an exception.
C20_MalformedInputAborts ==
    Malformed(segments) => pc # "done"

\* A segment without a text field always aborts the run.
TextlessInputAborts ==
    (\E k \in 1..Len(segments) : ~HasText(segments[k])) => pc # "done"

\* Nothing reads the timestamps: an input whose only flaw is in its times is
\* grouped like any other.
TimesNeverChecked ==
    (\A k \in 1..Len(segments) : HasText(segments[k])) =>
        pc \notin {"check_raised", "summarize_raised"}

\* The open group is full when the next segment arrives.
FullGroupAhead ==
    /\ pc = "loop"
    /\ i < Len(segments)
    /\ Len(current_group) >= max_segments_per_group

\* C22: when the open group is full as the next segment arrives, the step
\* emits the open group, opens a group holding only the next segment and sends
\* no boundary request; a boundary request is sent only from a group that is
\* not full.
C22_LimitBeforeOracle ==
    [][/\ FullGroupAhead =>
             /\ Len(grouped_data') = Len(grouped_data) + 1
             /\ grouped_data'[Len(grouped_data')].group_segments = current_group
             /\ current_group' = <<segments[i + 1]>>
             /\ boundary_requests' = boundary_requests
             /\ last_check' = last_check
       /\ boundary_requests' # boundary_requests => ~FullGroupAhead]_vars

C22_Witness ==
    /\ pc = "done"
    /\ max_segments_per_group >= 2
    /\ \E k \in 1..Len(emit_log) :
          emit_log[k].path = "limit" /\ GroupSize(k) = max_segments_per_group
    /\ last_check.called /\ last_check.belongs
    /\ last_check.outcome.kind = "ok"

\* C23: an emitted group record is never changed or moved by a later step.
C23_EmittedGroupsFrozen ==
    [][/\ Len(grouped_data') >= Len(grouped_data)
       /\ \A k \in 1..Len(grouped_data) : grouped_data'[k] = grouped_data[k]]_vars

C23_Witness ==
    /\ pc = "loop"
    /\ Len(grouped_data) >= 2
    /\ Len(current_group) >= 2
    /\ emit_log[1].path = "boundary"
    /\ emit_log[2].path = "limit"

\* C24: during a run over a non-empty input the open group is never empty,
\* and no emitted group has an empty segment list.
C24_OpenGroupNonEmpty ==
    /\ (pc = "loop" \/ (pc = "done" /\ Len(segments) > 0)) => Len(current_group) >= 1
    /\ \A k \in 1..Len(grouped_data) : GroupSize(k) >= 1

C24_Witness ==
    /\ pc = "loop"
    /\ i = Len(segments)
    /\ Len(current_group) = 1
    /\ Len(grouped_data) >= 2
    /\ \A k \in 1..Len(grouped_data) : emit_log[k].path = "boundary"

\* C28: with max_segments_per_group <= 1 every input segment becomes a group of
\* its own, no boundary and no summarization request is sent, and for a limit
\* below 1 the groups are larger than the limit.
C28_LowLimitSingletons ==
    max_segments_per_group <= 1 =>
        /\ boundary_requests = 0
        /\ summary_requests = 0
        /\ ~last_check.called
        /\ pc \notin {"check_raised", "summarize_raised"}
        /\ \A k \in 1..Len(grouped_data) :
              /\ grouped_data[k].group_segments = <<segments[k]>>
              /\ grouped_data[k].group_summary = segments[k].text
              /\ emit_log[k].outcome = NoCall
              /\ max_segments_per_group < 1 => GroupSize(k) > max_segments_per_group
        /\ pc = "done" => Len(grouped_data) = Len(segments)

C28_Witness ==
    /\ pc = "done"
    /\ max_segments_per_group < 0
    /\ Len(segments) >= 3
    /\ Len(grouped_data) = Len(segments)

TextOf(segment) == Get(segment, "text", <<>>)

\* C25: a segment whose text is empty or blank is labelled 'noise', one with
\* fewer than 3 words 'filler', both without an oracle request; every other
\* segment is classified by one oracle request.
C25_LocalFastPath ==
    \A k \in 1..Len(classified_segments) :
        LET text == TextOf(c_segments[k])
        IN  IF Strip(text) = <<>>
            THEN classified_segments[k].label = L_noise /\ c_log[k].outcome = NoCall
            ELSE IF WordCount(text) < 3
            THEN classified_segments[k].label = L_filler /\ c_log[k].outcome = NoCall
            ELSE c_log[k].outcome \in ClassifyOutcomes

C25_Witness ==
    /\ c_pc = "done"
    /\ \E k \in 1..Len(c_segments) :
          TextOf(c_segments[k]) = BlankText /\ classified_segments[k].label = L_noise
    /\ \E k \in 1..Len(c_segments) :
          TextOf(c_segments[k]) = TwoWords /\ classified_segments[k].label = L_filler
    /\ \E k \in 1..Len(c_segments) :
          /\ TextOf(c_segments[k]) = ThreeWords
          /\ c_log[k].outcome.kind = "ok"
          /\ classified_segments[k].label = L_tip

\* The reply as classify_with_ollama compares it: lower-cased, without quotes
\* and surrounding whitespace.
NormalizedReply(reply) == Strip(RemoveQuotes(Lower(Strip(reply))))

Matches(label, reply) == Contains(label, reply) \/ Contains(reply, label)

\* C26: for a successful reply the label is the normalized reply when that is
\* one of the 13 labels, else the first label of the list that contains the
\* reply or is contained in it, else 'explanation'.
C26_LabelDecision ==
    \A k \in 1..Len(classified_segments) :
        c_log[k].outcome.kind = "ok" =>
            LET reply == NormalizedReply(c_log[k].outcome.text)
                label == classified_segments[k].label
            IN  IF reply \in LabelSet THEN label = reply
                ELSE IF \E m \in 1..Len(CLASSIFICATION_LABELS) :
                            Matches(CLASSIFICATION_LABELS[m], reply)
                THEN \E m \in 1..Len(CLASSIFICATION_LABELS) :
                        /\ label = CLASSIFICATION_LABELS[m]
                        /\ Matches(CLASSIFICATION_LABELS[m], reply)
                        /\ \A j \in 1..(m - 1) : ~Matches(CLASSIFICATION_LABELS[j], reply)
                ELSE label = L_explanation

\* A finished run with an exact reply, a reply inside a label, a reply that
\* holds two labels, and a reply that matches nothing.
C26_Witness ==
    /\ c_pc = "done"
    /\ \E k \in 1..Len(c_log) :
          /\ c_log[k].outcome.kind = "ok"
          /\ NormalizedReply(c_log[k].outcome.text) = L_warning
    /\ \E k \in 1..Len(c_log) :
          /\ c_log[k].outcome.kind = "ok"
          /\ NormalizedReply(c_log[k].outcome.text) = <<"c","o","d","e">>
          /\ classified_segments[k].label = L_code_example
    /\ \E k \in 1..Len(c_log) :
          /\ c_log[k].outcome.kind = "ok"
          /\ Contains(L_summary, c_log[k].outcome.text)
          /\ classified_segments[k].label = L_tip

\* C29: a successful reply whose normalized text is empty is labelled
\* 'introduction', the first label of the list, not 'explanation'.
C29_EmptyReplyIsIntroduction ==
    \A k \in 1..Len(classified_segments) :
        (c_log[k].outcome.kind = "ok" /\ NormalizedReply(c_log[k].outcome.text) = <<>>) =>
            classified_segments[k].label = L_introduction

C29_Witness ==
    /\ c_pc = "done"
    /\ \E k \in 1..Len(c_log) :
          /\ c_log[k].outcome.kind = "ok"
          /\ c_log[k].outcome.text = <<>>
          /\ classified_segments[k].label = L_introduction
    /\ \E k \in 1..Len(c_log) :
          /\ c_log[k].outcome.kind = "ok"
          /\ c_log[k].outcome.text # <<>>
          /\ NormalizedReply(c_log[k].outcome.text) = <<>>
          /\ classified_segments[k].label = L_introduction

\* The input positions consumed so far, by the fate the order empty text,
\* irrelevant label, duplicate assigns them.
EmptyAt(k) == Strip(TextOf(f_segments[k])) = <<>>

IrrelevantAt(k) ==
    ~EmptyAt(k) /\ Lower(Get(f_segments[k], "label", <<>>)) \in IRRELEVANT_LABELS

ReachesDuplicateCheck(k) == ~EmptyAt(k) /\ ~IrrelevantAt(k)

KeptAt(k) == \E j \in 1..Len(filtered) : filtered[j] = f_segments[k]

\* C27: every consumed segment is counted once, under the first check it
\* fails in the order empty, irrelevant label, duplicate, or under 'kept': the
\* four counters add up to the segments consumed (to total at the end), and
\* kept is the length of the output list.
C27_StatsAttribution ==
    f_pc \in {"loop", "done", "raised"} =>
        /\ stats.empty = Cardinality({k \in 1..f_i : EmptyAt(k)})
        /\ stats.irrelevant_label = Cardinality({k \in 1..f_i : IrrelevantAt(k)})
        /\ stats.kept = Cardinality({k \in 1..f_i : KeptAt(k)})
        /\ stats.duplicate =
              Cardinality({k \in 1..f_i : ReachesDuplicateCheck(k) /\ ~KeptAt(k)})
        /\ stats.kept = Len(filtered)
        /\ stats.empty + stats.irrelevant_label + stats.duplicate + stats.kept = f_i
        /\ stats.total = Len(f_segments)
        /\ f_pc \in {"done", "raised"} => f_i = stats.total

\* A finished run in which a blank segment with an irrelevant label was counted
\* as empty, another segment was dropped for its label and a third as a duplicate.
C27_Witness ==
    /\ f_pc = "done"
    /\ f_pass = 1
    /\ \E k \in 1..Len(f_segments) :
          EmptyAt(k) /\ Get(f_segments[k], "label", <<>>) \in IRRELEVANT_LABELS
    /\ stats.empty = 1
    /\ stats.irrelevant_label = 1
    /\ stats.duplicate = 1

C21_BatchLabelsValid ==
    b_pc = "done" =>
        /\ Len(b_labels) = Len(b_segments)
        /\ \A k \in 1..Len(b_labels) : b_labels[k] \in LabelSet

\* The returned list has one label per segment, and a reply that is no list
\* of that many strings is answered by the one-at-a-time fallback, whose labels
\* are among the 13.
BatchLengthAndFallback ==
    /\ b_pc # "raised"
    /\ b_pc = "done" =>
          /\ Len(b_labels) = Len(b_segments)
          /\ LET listed == /\ b_reply.kind = "ok"
                           /\ b_reply.json.type = "list"
                           /\ Len(b_reply.json.items) = Len(b_segments)
                           /\ \A k \in 1..Len(b_segments) : b_reply.json.items[k].type = "str"
             IN  IF listed
                 THEN b_log = <<>>
                 ELSE /\ Len(b_log) = Len(b_segments)
                      /\ \A k \in 1..Len(b_labels) : b_labels[k] \in LabelSet

====
